---- MODULE Spec2Model ----
(***************************************************************************)
(* Finance-Tracker: the FinanceTracker ledger (in-memory transaction list  *)
(* written through to a JSON file) and the FinanceApp "Add Transaction"    *)
(* handler that validates form input before calling the ledger.            *)
(*                                                                         *)
(* Python values are represented as follows.                               *)
(*   str            a TLA+ string                                          *)
(*   number         an integer (the amounts of the model are whole         *)
(*                  numbers, on which float arithmetic is exact)           *)
(*   dict           <<"dict", f>>, f a function from keys to values        *)
(*   int element    <<"int", n>>  (a non-dict element of a loaded list)    *)
(*   list           a sequence                                             *)
(* A JSON document is a tree: <<"array", items>>, <<"object", members>>    *)
(* with members a sequence of <<key, value>>, <<"number", n>>,             *)
(* <<"string", s>>.                                                        *)
(***************************************************************************)
EXTENDS Integers, Sequences, FiniteSets, TLC

VARIABLES
    transactions,     \* FinanceTracker.transactions
    store,            \* the file at FinanceTracker.file_path
    alive,            \* TRUE iff FinanceTracker.__init__ returned an object
    call,             \* the last operation invoked: [op, args, io]
    ret,              \* what the last operation returned
    err,              \* the exception that escaped the last operation, or "none"
    app,              \* FinanceApp: "none" (ledger used alone), "running", "crashed"
    messagebox,       \* title of the last dialog FinanceApp showed, or ""
    combobox_values   \* values of FinanceApp.combobox_category

vars == <<transactions, store, alive, call, ret, err, app, messagebox, combobox_values>>

(***************************************************************************)
(* Bounds of the model.                                                    *)
(***************************************************************************)
MaxLen == 3

Dates == {"2024-01-01"}
Descriptions == {"Coffee"}
Categories == {"Food", "food"}
Amounts == {-2, 0, 3}

WriteOutcomes == {"ok", "open_failed", "write_failed"}

Range(s) == {s[i] : i \in 1..Len(s)}

(***************************************************************************)
(* Python objects.                                                         *)
(***************************************************************************)
PyDict(f) == <<"dict", f>>
PyInt(n) == <<"int", n>>
IsDict(v) == v[1] = "dict"
None == <<"None">>

\* dict.get(key, default)
DictGet(v, key, default) == IF key \in DOMAIN v[2] THEN v[2][key] ELSE default

\* the dict literal built by add_transaction
Transaction(date_str, description, category, amount) ==
    PyDict([date |-> date_str, description |-> description,
            category |-> category, amount |-> amount])

(***************************************************************************)
(* json.dump / json.load.                                                  *)
(***************************************************************************)
KeyOrder == <<"date", "description", "category", "amount">>

IsKeyOf(f, k) == k \in DOMAIN f

\* a dict value as a JSON value: the amount is a number, the others strings
json_dump_value(k, x) == IF k = "amount" THEN <<"number", x>> ELSE <<"string", x>>

json_dump_dict(f) ==
    LET ks == SelectSeq(KeyOrder, LAMBDA k : IsKeyOf(f, k))
    IN  <<"object", [i \in 1..Len(ks) |-> <<ks[i], json_dump_value(ks[i], f[ks[i]])>>]>>

json_dump_element(v) ==
    IF IsDict(v) THEN json_dump_dict(v[2]) ELSE <<"number", v[2]>>

\* json.dump(self.transactions, f, indent=4): the document written
json_dump(txs) == <<"array", [i \in 1..Len(txs) |-> json_dump_element(txs[i])]>>

\* a JSON object as a dict: a repeated key keeps its last value
json_load_object(members) ==
    LET keys == {members[i][1] : i \in 1..Len(members)}
        last(k) == CHOOSE i \in 1..Len(members) :
                       /\ members[i][1] = k
                       /\ \A j \in (i+1)..Len(members) : members[j][1] # k
    IN  PyDict([k \in keys |-> members[last(k)][2][2]])

json_load_element(j) ==
    IF j[1] = "object" THEN json_load_object(j[2]) ELSE PyInt(j[2])

\* json.load(f): <<"list", elements>> for an array, the number otherwise
json_load(doc) ==
    IF doc[1] = "array"
    THEN <<"list", [i \in 1..Len(doc[2]) |-> json_load_element(doc[2][i])]>>
    ELSE PyInt(doc[2])

(***************************************************************************)
(* The record store.  kind is one of                                       *)
(*   "absent"       os.path.exists is false                                *)
(*   "unreadable"   open(..., "r") raises OSError                          *)
(*   "undecodable"  the bytes are not UTF-8: reading raises                *)
(*                  UnicodeDecodeError                                     *)
(*   "malformed"    text that is not JSON (json.JSONDecodeError), such as  *)
(*                  the proper prefix a failed write leaves                *)
(*   "json"         a JSON document, in doc                                *)
(***************************************************************************)
NoDoc == <<"none">>
File(kind) == [kind |-> kind, doc |-> NoDoc]
JsonFile(doc) == [kind |-> "json", doc |-> doc]

\* load that extends the list it has instead of replacing it
load_transactions_extend(txs, st) ==
    IF st.kind \in {"absent", "unreadable", "malformed"} THEN <<>>
    ELSE IF st.kind = "undecodable" THEN txs
    ELSE LET data == json_load(st.doc)
         IN  IF data[1] = "list" THEN txs \o data[2] ELSE <<>>

\* FinanceTracker.load: the value of self.transactions afterwards
load_transactions(txs, st) ==
    IF st.kind = "absent" THEN <<>>
    ELSE IF st.kind \in {"unreadable", "malformed"} THEN <<>>
    ELSE IF st.kind = "undecodable" THEN txs
    ELSE LET data == json_load(st.doc)
         IN  IF data[1] = "list" THEN data[2] ELSE <<>>

\* FinanceTracker.load: the exception that escapes it
load_raises(st) == IF st.kind = "undecodable" THEN "UnicodeDecodeError" ELSE "none"

\* save as if it ran before the append: the last element is not written
save_store_before_append(txs, st, io) ==
    IF io = "ok" THEN JsonFile(json_dump(SubSeq(txs, 1, Len(txs) - 1)))
    ELSE IF io = "open_failed" THEN st
    ELSE File("malformed")

\* FinanceTracker.save: the file afterwards, for each outcome of the write
save_store(txs, st, io) ==
    IF io = "ok" THEN JsonFile(json_dump(txs))
    ELSE IF io = "open_failed" THEN st
    ELSE File("malformed")

\* save without its except clause
save_raises_uncaught(io) == IF io = "ok" THEN "none" ELSE "OSError"

\* FinanceTracker.save: the exception that escapes it (OSError is caught)
save_raises(io) == "none"

\* an append made on a copy of the list, and lost
list_append_lost(txs, t) == txs

\* self.transactions.append(transaction)
list_append(txs, t) == Append(txs, t)

(***************************************************************************)
(* Queries.                                                                *)
(***************************************************************************)
\* t.get(...) on an element that is not a dict raises AttributeError
get_raises(txs) ==
    IF \E i \in 1..Len(txs) : ~IsDict(txs[i]) THEN "AttributeError" ELSE "none"

\* float(t.get("amount", 0) or 0)
amount_of(t) ==
    LET v == DictGet(t, "amount", 0)
    IN  IF v = 0 THEN 0 ELSE v

\* the loop of compute_summary, from element i on
RECURSIVE summary_loop(_, _, _, _)
summary_loop(txs, i, total_income, total_expenses) ==
    IF i > Len(txs)
    THEN <<total_income, total_expenses, total_income - total_expenses>>
    ELSE LET amt == amount_of(txs[i])
         IN  IF amt >= 0
             THEN summary_loop(txs, i + 1, total_income + amt, total_expenses)
             ELSE summary_loop(txs, i + 1, total_income, total_expenses + (-amt))

\* FinanceTracker.compute_summary: (total_income, total_expenses, net)
compute_summary(txs) == summary_loop(txs, 1, 0, 0)

\* str(t.get("category", "Uncategorized"))
category_of(t) == DictGet(t, "category", "Uncategorized")

\* breakdown[cat] += value on a defaultdict(float)
breakdown_add(breakdown, cat, value) ==
    IF cat \in DOMAIN breakdown
    THEN [breakdown EXCEPT ![cat] = @ + value]
    ELSE [c \in DOMAIN breakdown \cup {cat} |->
             IF c = cat THEN 0 + value ELSE breakdown[c]]

\* the loop of category_breakdown, from element i on
RECURSIVE breakdown_loop(_, _, _)
breakdown_loop(txs, i, breakdown) ==
    IF i > Len(txs) THEN breakdown
    ELSE LET cat == category_of(txs[i])
             amt == amount_of(txs[i])
             value == IF amt < 0 THEN -amt ELSE amt
         IN  breakdown_loop(txs, i + 1, breakdown_add(breakdown, cat, value))

EmptyDict == [c \in {} |-> 0]

\* FinanceTracker.category_breakdown: the dict returned
category_breakdown(txs) == breakdown_loop(txs, 1, EmptyDict)

\* get_transactions returning the newest transaction first
get_transactions_reversed(txs) == [i \in 1..Len(txs) |-> <<"ref", Len(txs) + 1 - i>>]

\* FinanceTracker.get_transactions: list(self.transactions), a new list whose
\* i-th element is the very object the ledger holds at position i
get_transactions(txs) == [i \in 1..Len(txs) |-> <<"ref", i>>]

\* the object an element of a returned list denotes: <<"ref", i>> is the
\* ledger's i-th object, <<"own", v>> an object only the caller holds
Deref(h, txs) == IF h[1] = "ref" THEN txs[h[2]] ELSE h[2]

\* the value of a list returned by get_transactions
ListValue(handles, txs) == [i \in 1..Len(handles) |-> Deref(handles[i], txs)]

(***************************************************************************)
(* Construction: FinanceTracker.__init__ on each record store of the       *)
(* model.                                                                  *)
(***************************************************************************)
InitialStores ==
    { File("absent"), File("unreadable"), File("undecodable"), File("malformed"),
      JsonFile(<<"number", 7>>),
      JsonFile(json_dump(<<>>)),
      JsonFile(json_dump(<<Transaction("2024-01-01", "Coffee", "Food", -2)>>)),
      JsonFile(json_dump(<<PyInt(1)>>)),
      JsonFile(json_dump(<<PyDict([amount |-> 3])>>)) }

Called(op, args, io) == [op |-> op, args |-> args, io |-> io]

InitTracker ==
    /\ store \in InitialStores
    /\ transactions = load_transactions(<<>>, store)
    /\ err = load_raises(store)
    /\ alive = (load_raises(store) = "none")
    /\ call = Called("__init__", <<>>, "-")
    /\ ret = None

Init ==
    /\ InitTracker
    /\ app = "none"
    /\ messagebox = ""
    /\ combobox_values = {}

(***************************************************************************)
(* The operations of FinanceTracker.                                       *)
(***************************************************************************)
ui == <<app, messagebox, combobox_values>>

Load ==
    /\ alive
    /\ transactions' = load_transactions(transactions, store)
    /\ err' = load_raises(store)
    /\ call' = Called("load", <<>>, "-")
    /\ ret' = None
    /\ UNCHANGED <<store, alive, ui>>

Save(io) ==
    /\ alive
    /\ store' = save_store(transactions, store, io)
    /\ err' = save_raises(io)
    /\ call' = Called("save", <<>>, io)
    /\ ret' = None
    /\ UNCHANGED <<transactions, alive, ui>>

AddTransaction(date_str, description, category, amount, io) ==
    /\ alive
    /\ Len(transactions) < MaxLen
    /\ LET txs == list_append(transactions,
                              Transaction(date_str, description, category, amount))
       IN  /\ transactions' = txs
           /\ store' = save_store(txs, store, io)
    /\ err' = save_raises(io)
    /\ call' = Called("add_transaction", <<date_str, description, category, amount>>, io)
    /\ ret' = None
    /\ UNCHANGED <<alive, ui>>

GetTransactions ==
    /\ alive
    /\ ret' = <<"list", get_transactions(transactions)>>
    /\ err' = "none"
    /\ call' = Called("get_transactions", <<>>, "-")
    /\ UNCHANGED <<transactions, store, alive, ui>>

ComputeSummary ==
    /\ alive
    /\ err' = get_raises(transactions)
    /\ ret' = IF get_raises(transactions) = "none"
              THEN <<"tuple", compute_summary(transactions)>>
              ELSE None
    /\ call' = Called("compute_summary", <<>>, "-")
    /\ UNCHANGED <<transactions, store, alive, ui>>

CategoryBreakdown ==
    /\ alive
    /\ err' = get_raises(transactions)
    /\ ret' = IF get_raises(transactions) = "none"
              THEN <<"dict", category_breakdown(transactions)>>
              ELSE None
    /\ call' = Called("category_breakdown", <<>>, "-")
    /\ UNCHANGED <<transactions, store, alive, ui>>

\* a client of the ledger calling any operation, add_transaction with a
\* category of cats and an amount of amts
Ledger(cats, amts) ==
    \/ Load
    \/ \E io \in WriteOutcomes : Save(io)
    \/ \E d \in Dates, desc \in Descriptions, c \in cats, a \in amts,
          io \in WriteOutcomes : AddTransaction(d, desc, c, a, io)
    \/ GetTransactions
    \/ ComputeSummary
    \/ CategoryBreakdown

Next == Ledger(Categories, Amounts)

Spec == Init /\ [][Next]_vars

(***************************************************************************)
(* Properties of the ledger.                                               *)
(***************************************************************************)
LastArgs == Transaction(call.args[1], call.args[2], call.args[3], call.args[4])
LastArgsNext == Transaction(call'.args[1], call'.args[2], call'.args[3], call'.args[4])

\* the elements of the list the record store holds, if it holds one
StoredList(st) ==
    IF st.kind = "json" /\ st.doc[1] = "array" THEN json_load(st.doc)[2] ELSE <<>>

\* C1: right after an add_transaction whose write succeeded the record store
\* holds exactly the in-memory sequence, and a FinanceTracker constructed on
\* that store (a restart) holds a sequence equal to the one in memory.
C1_WriteThroughRoundTrip ==
    (call.op = "add_transaction" /\ call.io = "ok") =>
        /\ store.kind = "json"
        /\ json_load(store.doc) = <<"list", transactions>>
        /\ load_raises(store) = "none"
        /\ load_transactions(<<>>, store) = transactions

C1_Witness ==
    /\ call.op = "add_transaction"
    /\ call.io = "ok"
    /\ Len(transactions) >= 2

C3_CallOrderUnmodified ==
    [][call'.op = "add_transaction" =>
          ListValue(get_transactions(transactions'), transactions')
            = Append(ListValue(get_transactions(transactions), transactions),
                     LastArgsNext)]_vars

C3_Witness ==
    /\ call.op = "add_transaction"
    /\ Len(transactions) = MaxLen
    /\ transactions[1] # transactions[2]

TransactionKeys == {"date", "description", "category", "amount"}
IsTransactionRecord(v) == IsDict(v) /\ DOMAIN v[2] = TransactionKeys

\* the store parses to a sequence of transaction records
IsRecordSequence(st) ==
    /\ st.kind = "json"
    /\ st.doc[1] = "array"
    /\ \A i \in 1..Len(StoredList(st)) : IsTransactionRecord(StoredList(st)[i])

\* C5: load (also the one __init__ runs) surfaces no error, loads a store
\* that is a sequence of transaction records as it is, and leaves the
\* in-memory sequence empty for every other store.
C5_LoadKeepsOnlyRecordSequences ==
    call.op \in {"__init__", "load"} =>
        /\ err = "none"
        /\ transactions = IF IsRecordSequence(store) THEN StoredList(store) ELSE <<>>

\* C6: a failed write inside save or add_transaction raises nothing, and the
\* in-memory sequence afterwards is the one that was to be written.
C6_FailedWriteSwallowed ==
    [][(call'.op \in {"save", "add_transaction"} /\ call'.io # "ok") =>
          /\ err' = "none"
          /\ ret' = None
          /\ transactions' = IF call'.op = "save" THEN transactions
                             ELSE Append(transactions, LastArgsNext)]_vars

C6_Witness ==
    /\ call.op = "add_transaction"
    /\ call.io = "write_failed"
    /\ store.kind = "malformed"
    /\ Len(transactions) >= 2

\* the amounts of the transactions of a sequence, in order
HasAmount(v) == IsDict(v) /\ "amount" \in DOMAIN v[2]
AmountsIn(txs) ==
    LET idx == SelectSeq([i \in 1..Len(txs) |-> i], LAMBDA i : HasAmount(txs[i]))
    IN  [k \in 1..Len(idx) |-> txs[idx[k]][2]["amount"]]

RECURSIVE SumSeq(_)
SumSeq(s) == IF s = <<>> THEN 0 ELSE Head(s) + SumSeq(Tail(s))

Abs(n) == IF n < 0 THEN -n ELSE n
IsIncome(n) == n >= 0
IsExpense(n) == n < 0
TotalIncome(txs) == SumSeq(SelectSeq(AmountsIn(txs), IsIncome))
TotalExpenses(txs) ==
    LET neg == SelectSeq(AmountsIn(txs), IsExpense)
    IN  SumSeq([k \in 1..Len(neg) |-> Abs(neg[k])])

\* C7: compute_summary returns (income, expenses, income - expenses), income
\* the sum of the amounts >= 0 and expenses the sum of the absolute values of
\* the amounts < 0; (0, 0, 0) on an empty ledger.
C7_Summary ==
    call.op = "compute_summary" =>
        /\ err = "none"
        /\ ret = <<"tuple", <<TotalIncome(transactions), TotalExpenses(transactions),
                              TotalIncome(transactions) - TotalExpenses(transactions)>>>>
        /\ transactions = <<>> => ret = <<"tuple", <<0, 0, 0>>>>

\* the category labels that occur in a sequence
HasCategory(v) == IsDict(v) /\ "category" \in DOMAIN v[2]
LabelsIn(txs) == {txs[i][2]["category"] : i \in {j \in 1..Len(txs) : HasCategory(txs[j])}}
WithLabel(txs, c) ==
    SelectSeq(txs, LAMBDA v : HasCategory(v) /\ v[2]["category"] = c)
AbsTotal(txs) ==
    LET a == AmountsIn(txs) IN SumSeq([k \in 1..Len(a) |-> Abs(a[k])])

\* C8: category_breakdown returns a mapping whose keys are exactly the
\* category labels occurring in the ledger, each mapped to the sum of the
\* absolute amounts of the transactions with that label.
C8_Breakdown ==
    call.op = "category_breakdown" =>
        /\ err = "none"
        /\ ret[1] = "dict"
        /\ DOMAIN ret[2] = LabelsIn(transactions)
        /\ \A c \in LabelsIn(transactions) :
              ret[2][c] = AbsTotal(WithLabel(transactions, c))

\* C9: a load that directly follows a load (or the construction, which
\* loads) leaves the in-memory sequence as the first one left it.
C9_LoadIdempotent ==
    [][(call.op \in {"__init__", "load"} /\ call'.op = "load") =>
          transactions' = transactions]_vars

C9_Witness ==
    /\ call.op = "load"
    /\ Len(transactions) >= 1

(***************************************************************************)
(* A caller that mutates the list get_transactions returned to it, while   *)
(* it holds that list (ret, until its next call into the ledger).          *)
(***************************************************************************)
CallerOps == {"caller_append", "caller_remove", "caller_setitem"}

HoldsList == alive /\ ret[1] = "list"

\* d[key] = value
dict_setitem(f, key, value) ==
    [k \in DOMAIN f \cup {key} |-> IF k = key THEN value ELSE f[k]]

\* returned.append(t)
CallerAppend(t) ==
    /\ HoldsList
    /\ Len(ret[2]) < MaxLen
    /\ ret' = <<"list", Append(ret[2], <<"own", t>>)>>
    /\ call' = Called("caller_append", <<>>, "-")
    /\ UNCHANGED <<transactions, store, alive, err, ui>>

\* del returned[i]
CallerRemove(i) ==
    /\ HoldsList
    /\ i \in 1..Len(ret[2])
    /\ ret' = <<"list", SubSeq(ret[2], 1, i - 1) \o SubSeq(ret[2], i + 1, Len(ret[2]))>>
    /\ call' = Called("caller_remove", <<>>, "-")
    /\ UNCHANGED <<transactions, store, alive, err, ui>>

\* returned[i][key] = value, on an element that is a dict
CallerSetItem(i, key, value) ==
    /\ HoldsList
    /\ i \in 1..Len(ret[2])
    /\ IsDict(Deref(ret[2][i], transactions))
    /\ LET h == ret[2][i]
           d == PyDict(dict_setitem(Deref(h, transactions)[2], key, value))
       IN  IF h[1] = "ref"
           THEN /\ transactions' = [transactions EXCEPT ![h[2]] = d]
                /\ ret' = ret
           ELSE /\ transactions' = transactions
                /\ ret' = <<"list", [ret[2] EXCEPT ![i] = <<"own", d>>]>>
    /\ call' = Called("caller_setitem", <<>>, "-")
    /\ UNCHANGED <<store, alive, err, ui>>

Caller ==
    \/ CallerAppend(Transaction("2024-01-01", "Coffee", "Food", 3))
    \/ \E i \in 1..MaxLen : CallerRemove(i)
    \/ \E i \in 1..MaxLen : CallerSetItem(i, "amount", 3)
    \/ \E i \in 1..MaxLen : CallerSetItem(i, "category", "food")

NextCaller == Ledger({"Food"}, {-2}) \/ Caller

SpecCaller == Init /\ [][NextCaller]_vars

\* C4: nothing a caller does to the value get_transactions returned (adding
\* or removing elements, changing a field of a returned record) changes the
\* ledger's transaction sequence, which is all that a later get_transactions,
\* compute_summary, category_breakdown or save reads.
C4_ReturnedCopyIsolated ==
    [][call'.op \in CallerOps => transactions' = transactions]_vars

(***************************************************************************)
(* Python library functions the form handler uses, on strings.             *)
(***************************************************************************)
Char(s, i) == SubSeq(s, i, i)
Whitespace == {" ", "\t", "\n"}
Digits == {"0", "1", "2", "3", "4", "5", "6", "7", "8", "9"}

RECURSIVE lstrip(_)
lstrip(s) ==
    IF Len(s) > 0 /\ Char(s, 1) \in Whitespace THEN lstrip(SubSeq(s, 2, Len(s))) ELSE s

RECURSIVE rstrip(_)
rstrip(s) ==
    IF Len(s) > 0 /\ Char(s, Len(s)) \in Whitespace
    THEN rstrip(SubSeq(s, 1, Len(s) - 1)) ELSE s

\* str.strip()
strip(s) == rstrip(lstrip(s))

DigitValue(c) ==
    CASE c = "0" -> 0 [] c = "1" -> 1 [] c = "2" -> 2 [] c = "3" -> 3 [] c = "4" -> 4
      [] c = "5" -> 5 [] c = "6" -> 6 [] c = "7" -> 7 [] c = "8" -> 8 [] c = "9" -> 9

IsDigits(s) == Len(s) >= 1 /\ \A i \in 1..Len(s) : Char(s, i) \in Digits

RECURSIVE int_of(_)
int_of(s) ==
    IF Len(s) = 0 THEN 0
    ELSE 10 * int_of(SubSeq(s, 1, Len(s) - 1)) + DigitValue(Char(s, Len(s)))

\* the fields %m and %d of datetime.strptime: one or two digits, and for the
\* day also a space and a digit
MonthField(m) == Len(m) \in {1, 2} /\ IsDigits(m) /\ int_of(m) \in 1..12
DayField(d) ==
    \/ Len(d) \in {1, 2} /\ IsDigits(d) /\ int_of(d) \in 1..31
    \/ Len(d) = 2 /\ Char(d, 1) = " " /\ Char(d, 2) \in Digits \ {"0"}
day_value(d) == IF Char(d, 1) = " " THEN int_of(Char(d, 2)) ELSE int_of(d)

IsLeap(y) == (y % 4 = 0 /\ y % 100 # 0) \/ y % 400 = 0
DaysInMonth(y, m) ==
    IF m = 2 THEN (IF IsLeap(y) THEN 29 ELSE 28)
    ELSE IF m \in {4, 6, 9, 11} THEN 30 ELSE 31

\* datetime.strptime(s, "%Y-%m-%d") returns (does not raise ValueError): four
\* digits, "-", a month, "-", a day, nothing else, and a date of the calendar
strptime_ok(s) ==
    \E j \in 7..(Len(s) - 1) :
        /\ IsDigits(SubSeq(s, 1, 4))
        /\ Char(s, 5) = "-"
        /\ Char(s, j) = "-"
        /\ MonthField(SubSeq(s, 6, j - 1))
        /\ DayField(SubSeq(s, j + 1, Len(s)))
        /\ int_of(SubSeq(s, 1, 4)) >= 1
        /\ day_value(SubSeq(s, j + 1, Len(s)))
              <= DaysInMonth(int_of(SubSeq(s, 1, 4)), int_of(SubSeq(s, 6, j - 1)))

\* the text of a float literal after its sign
Unsigned(s) ==
    IF Len(s) >= 1 /\ Char(s, 1) \in {"+", "-"} THEN SubSeq(s, 2, Len(s)) ELSE s

\* float(s) returns (does not raise ValueError), for s without exponent,
\* underscore, "inf" or "nan": surrounding whitespace, a sign, then digits
\* with at most one "." and at least one digit
float_ok(s) ==
    LET u == Unsigned(strip(s))
    IN  \/ IsDigits(u)
        \/ \E p \in 1..Len(u) :
              /\ Char(u, p) = "."
              /\ p > 1 => IsDigits(SubSeq(u, 1, p - 1))
              /\ p < Len(u) => IsDigits(SubSeq(u, p + 1, Len(u)))
              /\ Len(u) > 1

\* float(s), for a literal whose fraction digits are all zero
float_value(s) ==
    LET t == strip(s)
        u == Unsigned(t)
        whole == IF \E p \in 1..Len(u) : Char(u, p) = "."
                 THEN SubSeq(u, 1, (CHOOSE p \in 1..Len(u) : Char(u, p) = ".") - 1)
                 ELSE u
    IN  IF Char(t, 1) = "-" THEN -int_of(whole) ELSE int_of(whole)

(***************************************************************************)
(* FinanceApp.                                                             *)
(***************************************************************************)
\* the texts typed into the date, description, category and amount entries
Forms ==
    { <<" 2024-01-05 ", " Coffee ", "Food", "3">>,
      <<"2024-1-5", "Tea", " ", "-2.0">>,
      <<"2024-02-30", "Coffee", "Food", "3">>,
      <<"05/01/2024", "Coffee", "Food", "3">>,
      <<"", "", "", "">>,
      <<"2024-01-05", "Coffee", "Food", "abc">>,
      <<"2024-01-05", "  ", "Food", "">>,
      <<"2024-01-05", "  ", "Food", "3">>,
      <<"2024-02-30", " ", " ", "1,5">>,
      <<"2024-01-05", "Coffee", "food", "1.">> }

DefaultCategories == {"Food", "Salary", "Transport", "Utilities", "Entertainment"}

\* FinanceApp._get_unique_categories, as a set (the list is sorted)
get_unique_categories(txs) ==
    LET cats == {strip(txs[i][2]["category"]) :
                    i \in {j \in 1..Len(txs) : DictGet(txs[j], "category", "") # ""}}
    IN  IF cats = {} THEN DefaultCategories ELSE cats

\* the exception that escapes building and filling the views of a ledger:
\* t.get on a non-dict in _get_unique_categories, t["date"] ... t["amount"]
\* on a dict without that key in refresh_transactions
views_raise(txs) ==
    IF \E i \in 1..Len(txs) : ~IsDict(txs[i]) THEN "AttributeError"
    ELSE IF \E i \in 1..Len(txs) : DOMAIN txs[i][2] # TransactionKeys THEN "KeyError"
    ELSE "none"

\* FinanceApp.__init__ on each record store of the model
InitApp ==
    /\ store \in InitialStores
    /\ transactions = load_transactions(<<>>, store)
    /\ alive = (load_raises(store) = "none")
    /\ err = IF load_raises(store) # "none" THEN load_raises(store)
             ELSE views_raise(transactions)
    /\ app = IF err = "none" THEN "running" ELSE "crashed"
    /\ combobox_values = IF err = "none" THEN get_unique_categories(transactions) ELSE {}
    /\ messagebox = ""
    /\ call = Called("FinanceApp.__init__", <<>>, "-")
    /\ ret = None

\* the input validation without the check of the description
input_error_description_unchecked(date_str, description, amount_str) ==
    IF ~strptime_ok(date_str) THEN "Invalid Date"
    ELSE IF ~float_ok(amount_str) THEN "Invalid Amount"
    ELSE ""

\* the input validation of FinanceApp.add_transaction: the title of the
\* error dialog shown, "" when the input passes
input_error(date_str, description, amount_str) ==
    IF ~strptime_ok(date_str) THEN "Invalid Date"
    ELSE IF ~float_ok(amount_str) THEN "Invalid Amount"
    ELSE IF description = "" THEN "Missing Description"
    ELSE ""

\* self.combobox_category.get().strip() or "Uncategorized"
category_or_default(raw) == IF strip(raw) = "" THEN "Uncategorized" ELSE strip(raw)

\* FinanceApp.add_transaction, the handler of the "Add Transaction" button,
\* on the texts of the four entry widgets.  The table, the labels and the
\* chart it redraws are functions of the ledger and are not kept as state.
FinanceApp_add_transaction(date_raw, description_raw, category_raw, amount_raw, io) ==
    /\ app = "running"
    /\ Len(transactions) < MaxLen
    /\ LET date_str == strip(date_raw)
           description == strip(description_raw)
           category == category_or_default(category_raw)
           amount_str == strip(amount_raw)
           error == input_error(date_str, description, amount_str)
       IN  IF error # ""
           THEN /\ messagebox' = error
                /\ call' = Called("FinanceApp.add_transaction",
                                  <<date_raw, description_raw, category_raw, amount_raw>>, "-")
                /\ err' = "none"
                /\ UNCHANGED <<transactions, store, combobox_values>>
           ELSE LET txs == list_append(transactions,
                               Transaction(date_str, description, category,
                                           float_value(amount_str)))
                IN  /\ transactions' = txs
                    /\ store' = save_store(txs, store, io)
                    /\ combobox_values' = combobox_values \cup {category}
                    /\ err' = IF save_raises(io) # "none" THEN save_raises(io)
                              ELSE views_raise(txs)
                    /\ messagebox' = IF err' = "none" THEN "Success" ELSE messagebox
                    /\ call' = Called("FinanceApp.add_transaction",
                                      <<date_raw, description_raw, category_raw, amount_raw>>, io)
    /\ ret' = None
    /\ UNCHANGED <<alive, app>>

NextApp ==
    \E f \in Forms, io \in WriteOutcomes :
        FinanceApp_add_transaction(f[1], f[2], f[3], f[4], io)

SpecApp == InitApp /\ [][NextApp]_vars

ErrorTitles == {"Invalid Date", "Invalid Amount", "Missing Description"}

\* the three checks of the form, on the texts entered
DateParses(raw) == strptime_ok(strip(raw))
AmountParses(raw) == float_ok(strip(raw))
DescriptionGiven(raw) == strip(raw) # ""

\* C10: the handler calls the ledger's add_transaction exactly when the date
\* parses as YYYY-MM-DD, the amount parses as a number and the stripped
\* description is not empty; otherwise it shows an error and leaves the
\* ledger's transaction sequence and the record store unchanged.
C10_ValidationGate ==
    [][call'.op = "FinanceApp.add_transaction" =>
          IF /\ DateParses(call'.args[1])
             /\ AmountParses(call'.args[4])
             /\ DescriptionGiven(call'.args[2])
          THEN /\ Len(transactions') = Len(transactions) + 1
               /\ SubSeq(transactions', 1, Len(transactions)) = transactions
               /\ call'.io = "ok" => StoredList(store') = transactions'
          ELSE /\ transactions' = transactions
               /\ store' = store
               /\ messagebox' \in ErrorTitles]_vars

C10_Witness ==
    /\ call.op = "FinanceApp.add_transaction"
    /\ ~DescriptionGiven(call.args[2])
    /\ DateParses(call.args[1])
    /\ AmountParses(call.args[4])
    /\ messagebox = "Missing Description"
    /\ Len(transactions) >= 1

====
